---- MODULE Spec2Model ----
(***************************************************************************)
(* Model of bindgen's type lowering (bindgen/src/bindgen.rs):              *)
(* Env::vars_to_types walks entry type variables, add_type_help dispatches *)
(* on the variable's Content and Layout, add_struct / add_tag_union /       *)
(* add_builtin_type emit RocTypes into the Types registry, and              *)
(* resolve_pending_recursive_types patches recursive pointers.              *)
(*                                                                         *)
(* The recursion of add_type_help is modelled by an explicit call stack:   *)
(* a call frame is a pending call, any other frame is the continuation of  *)
(* a caller waiting for the TypeId in `ret`.                               *)
(***************************************************************************)
EXTENDS FiniteSets, Integers, Sequences, TLC

\* How many entry variables the `variables` iterator of vars_to_types yields at most.
MaxEntries == 2

\* TypeId::PENDING, the reserved sentinel; real TypeIds are 0, 1, 2, ...
PENDING == -1

-----------------------------------------------------------------------------
(* The upstream oracle: Subs (Content of each Variable) and LayoutCache.   *)

F(label, kind, var) == [label |-> label, kind |-> kind, var |-> var]
T(name, vars) == [name |-> name, vars |-> vars]
Flat(kind) == [kind |-> kind]
RecordC(fields) == [kind |-> "Record", fields |-> fields]
TagUnionC(tags) == [kind |-> "TagUnion", tags |-> tags]
RecursiveTagUnionC(tags) == [kind |-> "RecursiveTagUnion", tags |-> tags]
ApplyC(sym, builtin) == [kind |-> "Apply", sym |-> sym, builtin |-> builtin]
AliasC(sym, builtin, real) == [kind |-> "Alias", sym |-> sym, builtin |-> builtin, real |-> real]
RecursionVarC(structure) == [kind |-> "RecursionVar", structure |-> structure]

\* subs.get_content_without_compacting(var), for the variables of the model's universe.
Subs ==
  [ vU8  |-> AliasC("Num.U8", TRUE, ""),
    vU32 |-> AliasC("Num.U32", TRUE, ""),
    vU64 |-> AliasC("Num.U64", TRUE, ""),
    vI64 |-> AliasC("Num.I64", TRUE, ""),
    vBool |-> AliasC("Bool.Bool", TRUE, ""),
    vStr |-> ApplyC("Str.Str", TRUE),
    vListU8 |-> ApplyC("List.List", TRUE),
    vSetStr |-> ApplyC("Set.Set", TRUE),
    vDict |-> ApplyC("Dict.Dict", TRUE),
    vListRec |-> ApplyC("List.List", TRUE),
    vOpaque |-> ApplyC("App.Opaque", FALSE),
    vFlex |-> Flat("FlexVar"),
    vRigid |-> Flat("RigidVar"),
    vFlexAble |-> Flat("FlexAbleVar"),
    vRigidAble |-> Flat("RigidAbleVar"),
    vFunc |-> Flat("Func"),
    vFnOrTag |-> Flat("FunctionOrTagUnion"),
    vErroneous |-> Flat("Erroneous"),
    vEmptyRec |-> Flat("EmptyRecord"),
    vEmptyTU |-> Flat("EmptyTagUnion"),
    vRanged |-> Flat("RangedNumber"),
    vError |-> Flat("Error"),
    \* records
    vRec3 |-> RecordC(<<F("a", "Required", "vU8"), F("b", "Required", "vU64"),
                        F("c", "Demanded", "vBool")>>),
    vRec1 |-> RecordC(<<F("a", "Required", "vStr")>>),
    vRecOpt |-> RecordC(<<F("a", "Required", "vU8"), F("b", "Optional", "vStr")>>),
    vRecOpt3 |-> RecordC(<<F("x", "Demanded", "vU32"), F("y", "Optional", "vI64"),
                           F("z", "Required", "vStr")>>),
    vRecAllOpt |-> RecordC(<<F("b", "Optional", "vStr")>>),
    vRecNest |-> RecordC(<<F("p", "Required", "vRec3"), F("q", "Required", "vU8")>>),
    vRecFlex |-> RecordC(<<F("a", "Required", "vU8"), F("b", "Required", "vFlex")>>),
    \* aliases
    vPoint |-> AliasC("Point", FALSE, "vRec3"),
    vOuter |-> AliasC("Outer", FALSE, "vPoint"),
    vWrap |-> AliasC("Wrap", FALSE, "vRecNest"),
    vMyResult |-> AliasC("MyResult", FALSE, "vResult"),
    vId |-> AliasC("Id", FALSE, "vTag1"),
    vBuiltinResult |-> AliasC("Result.Result", TRUE, "vResult"),
    \* tag unions
    vTag0 |-> TagUnionC(<<T("Foo", <<>>)>>),
    vTag1 |-> TagUnionC(<<T("Foo", <<"vStr">>)>>),
    vTag2 |-> TagUnionC(<<T("Foo", <<"vU8", "vU64">>)>>),
    vEnum |-> TagUnionC(<<T("Red", <<>>), T("Green", <<>>), T("Blue", <<>>)>>),
    vBool2 |-> TagUnionC(<<T("A", <<>>), T("B", <<>>)>>),
    vResult |-> TagUnionC(<<T("Ok", <<"vU32">>), T("Err", <<"vStr">>)>>),
    vDropA |-> TagUnionC(<<T("Bar", <<"vStr", "vU8">>), T("Baz", <<"vEmptyRec">>)>>),
    vDropB |-> TagUnionC(<<T("Bar", <<"vEmptyRec", "vStr">>), T("Baz", <<>>)>>),
    vShapes |-> TagUnionC(<<T("Term", <<"vExpr">>), T("Color", <<"vEnum">>),
                            T("Flag", <<"vBool2">>)>>),
    vExpr |-> RecursiveTagUnionC(<<T("Sym", <<"vStr">>), T("Add", <<"vExprRec", "vExprRec">>)>>),
    vExprRec |-> RecursionVarC("vExpr"),
    vCons |-> RecursiveTagUnionC(<<T("Nil", <<>>), T("Cons", <<"vI64", "vConsRec">>)>>),
    vConsRec |-> RecursionVarC("vCons"),
    vNode |-> RecursiveTagUnionC(<<T("Empty", <<>>), T("Node", <<"vI64", "vNodeRec">>)>>),
    vNodeRec |-> RecursionVarC("vNode"),
    vConsBad |-> RecursiveTagUnionC(<<T("Nil", <<>>), T("Cons", <<"vI64", "vConsBadRec">>)>>),
    vConsBadRec |-> RecursionVarC("vConsBad"),
    vNodeBad |-> RecursiveTagUnionC(<<T("Empty", <<>>), T("Node", <<"vI64", "vNodeBadRec">>)>>),
    vNodeBadRec |-> RecursionVarC("vNodeBad"),
    vFinger |-> RecursiveTagUnionC(<<T("Empty", <<>>), T("Single", <<"vI64">>),
                                     T("More", <<"vFingerRec">>)>>),
    vFingerRec |-> RecursionVarC("vFinger"),
    vNNU |-> RecursiveTagUnionC(<<T("Leaf", <<>>), T("Tree", <<"vNNURec">>)>>),
    vNNURec |-> RecursionVarC("vNNU")
  ]

Vars == DOMAIN Subs

\* The variables vars_to_types may be handed: every variable of the universe that is
\* a type of its own. Recursion variables only occur inside their union, and of the
\* primitive leaves vU8 and vStr stand for the rest.
EntryVars ==
  {v \in Vars : Subs[v].kind # "RecursionVar"} \ {"vU32", "vU64", "vI64", "vBool"}

BuiltinL(b, align) == [k |-> "Builtin", b |-> b, align |-> align]
UnionL(u) == [k |-> "Union", u |-> u, align |-> 8]

\* The Layout values of the universe, by name; "lErr" stands for from_var returning Err.
Layouts ==
  [ lU8 |-> [k |-> "Builtin", b |-> "Int", width |-> "U8", align |-> 1],
    lU32 |-> [k |-> "Builtin", b |-> "Int", width |-> "U32", align |-> 4],
    lU64 |-> [k |-> "Builtin", b |-> "Int", width |-> "U64", align |-> 8],
    lI64 |-> [k |-> "Builtin", b |-> "Int", width |-> "I64", align |-> 8],
    lBool |-> BuiltinL("Bool", 1),
    lStr |-> BuiltinL("Str", 8),
    lListU8 |-> [k |-> "Builtin", b |-> "List", elem |-> "lU8", align |-> 8],
    lSetStr |-> [k |-> "Builtin", b |-> "Set", elem |-> "lStr", align |-> 8],
    lDict |-> [k |-> "Builtin", b |-> "Dict", key |-> "lStr", val |-> "lU32", align |-> 8],
    lListStruct |-> [k |-> "Builtin", b |-> "List", elem |-> "lStruct8", align |-> 8],
    lUnit |-> [k |-> "Struct", empty |-> TRUE, align |-> 0],
    lStruct1 |-> [k |-> "Struct", empty |-> FALSE, align |-> 1],
    lStruct4 |-> [k |-> "Struct", empty |-> FALSE, align |-> 4],
    lStruct8 |-> [k |-> "Struct", empty |-> FALSE, align |-> 8],
    lNonRec |-> UnionL("NonRecursive"),
    lRec |-> UnionL("Recursive"),
    lNNU |-> UnionL("NonNullableUnwrapped"),
    lNW |-> UnionL("NullableWrapped"),
    lNUTrue |-> [k |-> "Union", u |-> "NullableUnwrapped", nullable_id |-> TRUE, align |-> 8],
    lNUFalse |-> [k |-> "Union", u |-> "NullableUnwrapped", nullable_id |-> FALSE, align |-> 8],
    lLambdaSet |-> [k |-> "LambdaSet", align |-> 0],
    lRecPtr |-> [k |-> "RecursivePointer", align |-> 8],
    lErr |-> [k |-> "Err", align |-> 0]
  ]

\* layout_cache.from_var(arena, var, subs): the layout the monomorphizer chose.
LayoutOf(v) ==
  CASE v = "vU8" -> "lU8" [] v = "vU32" -> "lU32" [] v = "vU64" -> "lU64"
    [] v = "vI64" -> "lI64" [] v = "vBool" -> "lBool" [] v = "vStr" -> "lStr"
    [] v = "vListU8" -> "lListU8" [] v = "vSetStr" -> "lSetStr" [] v = "vDict" -> "lDict"
    [] v = "vListRec" -> "lListStruct" [] v = "vOpaque" -> "lStruct8"
    [] v \in {"vFlex", "vError"} -> "lErr"
    [] v \in {"vFlexAble", "vRigid", "vRigidAble", "vErroneous", "vEmptyRec",
              "vEmptyTU"} -> "lUnit"
    [] v = "vFunc" -> "lLambdaSet"
    [] v = "vFnOrTag" -> "lU8"
    [] v = "vRanged" -> "lI64"
    [] v \in {"vRec3", "vPoint", "vOuter", "vRecNest", "vWrap", "vTag2", "vRec1",
              "vTag1", "vId", "vRecFlex"} -> "lStruct8"
    [] v = "vRecOpt" -> "lStruct1"
    [] v = "vRecOpt3" -> "lStruct8"
    [] v \in {"vRecAllOpt", "vTag0"} -> "lUnit"
    [] v = "vEnum" -> "lU8"
    [] v = "vBool2" -> "lBool"
    [] v \in {"vResult", "vMyResult", "vBuiltinResult", "vDropA", "vDropB",
              "vShapes"} -> "lNonRec"
    [] v = "vExpr" -> "lRec"
    [] v = "vCons" -> "lNUTrue"
    [] v = "vNode" -> "lNUFalse"
    [] v = "vConsBad" -> "lNUFalse"
    [] v = "vNodeBad" -> "lNUTrue"
    [] v = "vFinger" -> "lNW"
    [] v = "vNNU" -> "lNNU"
    [] v \in {"vExprRec", "vConsRec", "vNodeRec", "vConsBadRec", "vNodeBadRec",
              "vFingerRec", "vNNURec"} -> "lRecPtr"

\* Every string the lowering compares (tag names, then field labels), in the byte
\* order of Rust's str::cmp.
StrOrder ==
  <<"A", "Add", "B", "Bar", "Baz", "Blue", "Color", "Cons", "Empty", "Err", "Flag",
    "Foo", "Green",
    "Leaf", "More", "Nil", "Node", "Ok", "Red", "Single", "Sym", "Term", "Tree",
    "a", "b", "c", "f0", "f1", "f2", "p", "q", "x", "y", "z">>

StrRank(s) == CHOOSE i \in 1..Len(StrOrder) : StrOrder[i] = s

\* Ord::cmp on strings.
StrCmp(a, b) ==
  IF StrRank(a) < StrRank(b) THEN "Less"
  ELSE IF StrRank(a) > StrRank(b) THEN "Greater" ELSE "Equal"

-----------------------------------------------------------------------------
(* Pure helpers of the lowering.                                           *)

\* Option<T>: None is <<>>, Some(x) is <<x>>.
None == <<>>
Some(x) == <<x>>

\* StructNames::get_name(var): a name that depends on the variable alone.
StructName(var) == "R_" \o var

\* EnumNames::get_name(var): a name that depends on the variable alone.
EnumName(var) == "U_" \o var

\* cmp_fields(label1, layout1, label2, layout2, target_info): descending alignment,
\* ties broken by label.
CmpFields(label1, layout1, label2, layout2) ==
  LET size1 == Layouts[layout1].align
      size2 == Layouts[layout2].align
  IN IF size2 < size1 THEN "Less"
     ELSE IF size2 > size1 THEN "Greater"
     ELSE StrCmp(label1, label2)

\* Layout::is_dropped_because_empty: a zero-sized layout, erased from the ABI.
IsDroppedBecauseEmpty(layout) ==
  Layouts[layout].k = "Struct" /\ Layouts[layout].empty

\* Mutation of KeptFields: Optional fields are kept too.
KeptFieldsWithOptional(fields) ==
  [i \in 1..Len(fields) |-> <<fields[i].label, fields[i].var>>]

\* The record arm's flat_map: Required and Demanded fields are kept, Optional dropped.
KeptFields(fields) ==
  LET keep(f) == f.kind \in {"Required", "Demanded"}
      kept == SelectSeq(fields, keep)
  IN [i \in 1..Len(kept) |-> <<kept[i].label, kept[i].var>>]

\* The record arm's name: the alias name if one was passed, else StructNames.
RecordName(opt_name, var) ==
  IF opt_name # None THEN opt_name[1] ELSE StructName(var)

\* Mutation of SingleTagName: the alias name is ignored.
SingleTagNameNoAlias(opt_name, tag_name) == tag_name

\* The single-tag union's name: the alias name if one was passed, else the tag name.
SingleTagName(opt_name, tag_name) ==
  IF opt_name # None THEN opt_name[1] ELSE tag_name

\* The multi-tag union's name: the alias name if one was passed, else EnumNames.
UnionName(opt_name, var) ==
  IF opt_name # None THEN opt_name[1] ELSE EnumName(var)

\* format!("{}_{}", name, tag_name)
PayloadStructName(name, tag_name) == name \o "_" \o tag_name

\* payload_vars.iter().enumerate().map(|(index, v)| (format!("f{}", index), v))
PayloadFields(payload_vars) ==
  [i \in 1..Len(payload_vars) |-> <<"f" \o ToString(i - 1), payload_vars[i]>>]

\* Mutation of SortFields: the sort is left out.
SortFieldsLeftOut(sortables) == sortables

RECURSIVE InsertField(_, _)
InsertField(x, s) ==
  IF Len(s) = 0 THEN <<x>>
  ELSE IF CmpFields(x[1], x[3], Head(s)[1], Head(s)[3]) = "Less" THEN <<x>> \o s
  ELSE <<Head(s)>> \o InsertField(x, Tail(s))

RECURSIVE SortFieldsUpTo(_, _)
SortFieldsUpTo(s, n) ==
  IF n = 0 THEN <<>> ELSE InsertField(s[n], SortFieldsUpTo(s, n - 1))

\* sortables.sort_by(cmp_fields): a stable sort of (label, var, layout) triples.
SortFields(sortables) == SortFieldsUpTo(sortables, Len(sortables))

\* Mutation of SortTags: the sort is left out.
SortTagsLeftOut(tags) == tags

RECURSIVE InsertTag(_, _)
InsertTag(x, s) ==
  IF Len(s) = 0 THEN <<x>>
  ELSE IF StrCmp(x.name, Head(s).name) = "Less" THEN <<x>> \o s
  ELSE <<Head(s)>> \o InsertTag(x, Tail(s))

RECURSIVE SortTagsUpTo(_, _)
SortTagsUpTo(s, n) ==
  IF n = 0 THEN <<>> ELSE InsertTag(s[n], SortTagsUpTo(s, n - 1))

\* tags.sort_by(|(name1, _), (name2, _)| name1.cmp(name2))
SortTags(tags) == SortTagsUpTo(tags, Len(tags))

\* is_recursive_tag_union(&layout)
IsRecursiveTagUnion(layout) ==
  /\ Layouts[layout].k = "Union"
  /\ Layouts[layout].u \in {"Recursive", "NonNullableUnwrapped", "NullableWrapped",
                            "NullableUnwrapped"}

\* struct_fields_needed(env, vars): how many vars have a layout that is not dropped.
StructFieldsNeeded(vars) ==
  Cardinality({i \in 1..Len(vars) : ~IsDroppedBecauseEmpty(LayoutOf(vars[i]))})

\* Some from_var(..).unwrap() of the vars fails.
AnyLayoutErr(vars) == \E i \in 1..Len(vars) : LayoutOf(vars[i]) = "lErr"

\* The orders an iterator over the items of s may yield them in.
Orders(s) ==
  {[i \in 1..Len(s) |-> s[p[i]]] : p \in Permutations(1..Len(s))}

\* RocType values.
Prim(k) == [k |-> k]
Struct(name, fields) == [k |-> "Struct", name |-> name, fields |-> fields]
TransparentWrapper(name, content) ==
  [k |-> "TransparentWrapper", name |-> name, content |-> content]
RecursivePointer(name, content) ==
  [k |-> "RecursivePointer", name |-> name, content |-> content]
Placeholder == Struct("[THIS SHOULD BE REMOVED]", <<>>)
Panic(site) == [panic |-> site]
IsPanic(r) == "panic" \in DOMAIN r

\* add_builtin_type's leaf arms: the RocType of a primitive builtin layout.
BuiltinPrim(layout) ==
  LET l == Layouts[layout]
  IN CASE l.b = "Int" -> Prim(l.width)
       [] l.b = "Float" -> Prim(l.width)
       [] l.b = "Bool" -> Prim("Bool")
       [] l.b = "Decimal" -> Prim("RocDec")
       [] l.b = "Str" -> Prim("RocStr")

\* Mutation of NullableUnwrappedType: the two tag names change places.
NullableUnwrappedNamesSwapped(null_represents_first_tag, name, tags) ==
  LET null_tag == IF null_represents_first_tag THEN tags[2][1] ELSE tags[1][1]
      non_null == IF null_represents_first_tag THEN tags[1] ELSE tags[2]
  IN IF non_null[2] = None THEN Panic("unwrap_none")
     ELSE [k |-> "TagUnion", u |-> "NullableUnwrapped",
           name |-> name,
           null_tag |-> non_null[1],
           non_null_tag |-> null_tag,
           non_null_payload |-> non_null[2][1],
           null_represents_first_tag |-> null_represents_first_tag]

\* The NullableUnwrapped arm of add_tag_union's layout match; tags.pop() takes from
\* the end of the vec, so with nullable_id the null tag is the second tag.
NullableUnwrappedType(null_represents_first_tag, name, tags) ==
  IF Len(tags) # 2 THEN Panic("debug_assert")
  ELSE LET null_tag == IF null_represents_first_tag THEN tags[2][1] ELSE tags[1][1]
           non_null == IF null_represents_first_tag THEN tags[1] ELSE tags[2]
       IN IF non_null[2] = None THEN Panic("unwrap_none")
          ELSE [k |-> "TagUnion", u |-> "NullableUnwrapped",
                name |-> name,
                null_tag |-> null_tag,
                non_null_tag |-> non_null[1],
                non_null_payload |-> non_null[2][1],
                null_represents_first_tag |-> null_represents_first_tag]

\* Mutation of TagUnionType: a Builtin::Bool layout is treated like Builtin::Int.
TagUnionTypeBoolAsInt(layout, name, tags) ==
  LET l == Layouts[layout]
  IN IF l.k = "Union" THEN
       CASE l.u = "NonRecursive" ->
              [k |-> "TagUnion", u |-> "NonRecursive", name |-> name, tags |-> tags]
         [] l.u = "Recursive" ->
              [k |-> "TagUnion", u |-> "Recursive", name |-> name, tags |-> tags]
         [] l.u \in {"NonNullableUnwrapped", "NullableWrapped"} ->
              Panic("todo_union_layout")
         [] l.u = "NullableUnwrapped" ->
              NullableUnwrappedType(l.nullable_id, name, tags)
     ELSE IF l.k = "Builtin" THEN
       CASE l.b \in {"Int", "Bool"} ->
              [k |-> "TagUnion", u |-> "Enumeration", name |-> name,
               tags |-> [i \in 1..Len(tags) |-> tags[i][1]]]
         [] OTHER -> Panic("unreachable_layout")
     ELSE Panic("unreachable_layout")

\* The `let typ = match layout` of add_tag_union: the type stored at the union's
\* id, or the panic the match ends in. tags: <<tag name, Option<TypeId>>> pairs.
TagUnionType(layout, name, tags) ==
  LET l == Layouts[layout]
  IN IF l.k = "Union" THEN
       CASE l.u = "NonRecursive" ->
              [k |-> "TagUnion", u |-> "NonRecursive", name |-> name, tags |-> tags]
         [] l.u = "Recursive" ->
              [k |-> "TagUnion", u |-> "Recursive", name |-> name, tags |-> tags]
         [] l.u \in {"NonNullableUnwrapped", "NullableWrapped"} ->
              Panic("todo_union_layout")
         [] l.u = "NullableUnwrapped" ->
              NullableUnwrappedType(l.nullable_id, name, tags)
     ELSE IF l.k = "Builtin" THEN
       CASE l.b = "Int" ->
              [k |-> "TagUnion", u |-> "Enumeration", name |-> name,
               tags |-> [i \in 1..Len(tags) |-> tags[i][1]]]
         [] l.b = "Bool" -> Prim("Bool")
         [] OTHER -> Panic("unreachable_layout")
     ELSE Panic("unreachable_layout")

\* types.replace(id, typ)
Replace(tys, id, typ) == [tys EXCEPT ![id + 1] = typ]

\* Mutation of ResolvePending: the pending map is taken and the loop left out.
ResolvePendingLeftOut(pend, knownMap, tys) == [types |-> tys, panic |-> ""]

RECURSIVE ResolveFrom(_, _, _, _)
ResolveFrom(pend, i, knownMap, tys) ==
  IF i > Len(pend) THEN [types |-> tys, panic |-> ""]
  ELSE LET type_id == pend[i][1]
           var == pend[i][2]
       IN IF var \notin DOMAIN knownMap
          THEN [types |-> tys, panic |-> "unreachable_known"]
          ELSE IF ~(/\ tys[type_id + 1].k = "RecursivePointer"
                    /\ tys[type_id + 1].content = PENDING)
          THEN [types |-> tys, panic |-> "unreachable_slot"]
          ELSE ResolveFrom(pend, i + 1, knownMap,
                 Replace(tys, type_id,
                         RecursivePointer(tys[type_id + 1].name, knownMap[var])))

\* resolve_pending_recursive_types: every pending pointer, in insertion order, gets
\* the TypeId known for its variable; the result is the registry as the loop left
\* it and the panic that ended the loop, if one did.
ResolvePending(pend, knownMap, tys) == ResolveFrom(pend, 1, knownMap, tys)

-----------------------------------------------------------------------------
(* State.                                                                  *)

VARIABLES
  entered,   \* the entry variables the `variables` iterator has yielded so far
  types,     \* Types: the registry, types[id + 1] is the RocType of TypeId id
  deps,      \* Types: the depends edges, <<user id, used id>>
  pending,   \* env.pending_recursive_types, <<TypeId, Variable>> in insertion order
  known,     \* env.known_recursive_types, a map Variable -> TypeId
  stack,     \* the call stack of add_type / add_type_help and their callers
  ret,       \* the TypeId the last finished call returned
  outcome,   \* "running", "returned", or the panic that ended the call
  info,      \* history: for each TypeId, the call that added it
  seen,      \* history: the <<variable, layout>> pairs add_type_help was called on
  lowered    \* history: <<owner variable, field variable>> of every field lowering

vars == <<entered, types, deps, pending, known, stack, ret, outcome, info, seen, lowered>>

Top == stack[Len(stack)]
Rest == SubSeq(stack, 1, Len(stack) - 1)
Running(f) == outcome = "running" /\ Len(stack) > 0 /\ Top.f = f
Content == Subs[Top.var]

CallAddType(var) == [f |-> "add_type", var |-> var]
CallHelp(layout, var, opt_name, outer) ==
  [f |-> "add_type_help", layout |-> layout, var |-> var, opt_name |-> opt_name,
   outer |-> outer]
\* What the history keeps about an added type: the variable being lowered, the code
\* site, the first alias of the alias chain it was reached through ("" if none), the
\* opt_name the call was given, and the set of <<label, var>> fields handed to
\* add_struct.
Info(var, site, outer, opt_name, input) ==
  [var |-> var, site |-> site, outer |-> outer, opt_name |-> opt_name,
   input |-> {input[i] : i \in 1..Len(input)}]

\* Env as constructed, and Types::default().
Init ==
  /\ entered = <<>>
  /\ types = <<>>
  /\ deps = {}
  /\ pending = <<>>
  /\ known = <<>>
  /\ stack = <<>>
  /\ ret = None
  /\ outcome = "running"
  /\ info = <<>>
  /\ seen = {}
  /\ lowered = {}

\* A panic: the call ends, nothing else changes.
Halt(site) ==
  /\ outcome' = site
  /\ UNCHANGED <<entered, types, deps, pending, known, stack, ret, info, lowered>>

\* types.add(typ), returned to the caller whose frames are `rest`.
AddAndReturn(typ, i, rest) ==
  /\ types' = Append(types, typ)
  /\ info' = Append(info, i)
  /\ ret' = Some(Len(types))
  /\ stack' = rest

\* vars_to_types: the loop takes the next entry variable and calls add_type on it.
NextEntry ==
  /\ outcome = "running"
  /\ stack = <<>>
  /\ Len(entered) < MaxEntries
  /\ \E var \in EntryVars :
       /\ entered' = Append(entered, var)
       /\ stack' = <<CallAddType(var)>>
  /\ UNCHANGED <<types, deps, pending, known, ret, outcome, info, seen, lowered>>

\* vars_to_types: the loop is over; resolve_pending_recursive_types, then return.
Finish ==
  /\ outcome = "running"
  /\ stack = <<>>
  /\ LET r == ResolvePending(pending, known, types)
     IN /\ pending' = <<>>
        /\ types' = r.types
        /\ outcome' = IF r.panic = "" THEN "returned" ELSE r.panic
  /\ UNCHANGED <<entered, deps, known, stack, ret, info, seen, lowered>>

\* Env::add_type: the layout of var, then add_type_help with no name.
AddType ==
  /\ Running("add_type")
  /\ IF LayoutOf(Top.var) = "lErr"
     THEN Halt("expect_layout")
     ELSE /\ stack' = Rest \o <<CallHelp(LayoutOf(Top.var), Top.var, None, "")>>
          /\ UNCHANGED <<entered, types, deps, pending, known, ret, outcome, info, lowered>>
  /\ UNCHANGED seen

\* Mutation of AddStruct: a single field is not wrapped but sorted and lowered like
\* the fields of a longer record.
AddStructNoWrapper(name, fields, rest, g) ==
  IF Len(fields) = 0 THEN
    /\ AddAndReturn(Struct(name, <<>>), g, rest)
    /\ UNCHANGED <<outcome, lowered>>
  ELSE IF AnyLayoutErr([i \in 1..Len(fields) |-> fields[i][2]]) THEN
    /\ outcome' = "unwrap_layout"
    /\ UNCHANGED <<types, info, ret, stack, lowered>>
  ELSE
    LET sortables == [i \in 1..Len(fields) |->
                        <<fields[i][1], fields[i][2], LayoutOf(fields[i][2])>>]
        sorted == SortFields(sortables)
    IN /\ stack' = rest \o <<[f |-> "struct_k", name |-> name, cur |-> sorted[1],
                              todo |-> Tail(sorted), done |-> <<>>, g |-> g],
                             CallHelp(sorted[1][3], sorted[1][2], None, "")>>
       /\ lowered' = lowered \cup {<<g.var, sorted[1][2]>>}
       /\ UNCHANGED <<types, info, ret, outcome>>

\* add_struct(env, name, fields, types), called with the caller's frames `rest`;
\* g is the history entry of the struct.
AddStruct(name, fields, rest, g) ==
  IF Len(fields) = 0 THEN
    /\ AddAndReturn(Struct(name, <<>>), g, rest)
    /\ UNCHANGED <<outcome, lowered>>
  ELSE IF Len(fields) = 1 THEN
    /\ stack' = rest \o <<[f |-> "wrapper_k", name |-> name, g |-> g],
                          CallAddType(fields[1][2])>>
    /\ lowered' = lowered \cup {<<g.var, fields[1][2]>>}
    /\ UNCHANGED <<types, info, ret, outcome>>
  ELSE IF AnyLayoutErr([i \in 1..Len(fields) |-> fields[i][2]]) THEN
    /\ outcome' = "unwrap_layout"
    /\ UNCHANGED <<types, info, ret, stack, lowered>>
  ELSE
    LET sortables == [i \in 1..Len(fields) |->
                        <<fields[i][1], fields[i][2], LayoutOf(fields[i][2])>>]
        sorted == SortFields(sortables)
    IN /\ stack' = rest \o <<[f |-> "struct_k", name |-> name, cur |-> sorted[1],
                              todo |-> Tail(sorted), done |-> <<>>, g |-> g],
                             CallHelp(sorted[1][3], sorted[1][2], None, "")>>
       /\ lowered' = lowered \cup {<<g.var, sorted[1][2]>>}
       /\ UNCHANGED <<types, info, ret, outcome>>

\* add_struct: the single field's type came back; wrap it.
WrapperReturn ==
  /\ Running("wrapper_k")
  /\ AddAndReturn(TransparentWrapper(Top.name, ret[1]), Top.g, Rest)
  /\ UNCHANGED <<entered, deps, pending, known, outcome, seen, lowered>>

\* add_struct: a field's type came back; lower the next sorted field, or add the Struct.
StructFieldReturn ==
  /\ Running("struct_k")
  /\ LET done == Append(Top.done, <<Top.cur[1], ret[1]>>)
     IN IF Len(Top.todo) = 0
        THEN /\ AddAndReturn(Struct(Top.name, done), Top.g, Rest)
             /\ UNCHANGED lowered
        ELSE LET next == Head(Top.todo)
             IN /\ stack' = Rest \o <<[Top EXCEPT !.cur = next, !.todo = Tail(Top.todo),
                                                  !.done = done],
                                      CallHelp(next[3], next[2], None, "")>>
                /\ lowered' = lowered \cup {<<Top.g.var, next[2]>>}
                /\ UNCHANGED <<types, info, ret>>
  /\ UNCHANGED <<entered, deps, pending, known, outcome, seen>>

\* add_builtin_type(env, builtin, var, opt_name, types), called with the caller's
\* frames `rest`: a leaf is added at once, a container first lowers its element
\* layouts, with the same var and opt_name.
AddBuiltinType(layout, var, opt_name, outer, rest) ==
  LET l == Layouts[layout]
  IN IF l.b \in {"List", "Set"} THEN
       /\ stack' = rest \o <<[f |-> "elem_k", b |-> l.b, var |-> var],
                             CallHelp(l.elem, var, opt_name, outer)>>
       /\ UNCHANGED <<types, info, ret>>
     ELSE IF l.b = "Dict" THEN
       /\ stack' = rest \o <<[f |-> "dict_key_k", layout |-> layout, var |-> var,
                              opt_name |-> opt_name, outer |-> outer],
                             CallHelp(l.key, var, opt_name, outer)>>
       /\ UNCHANGED <<types, info, ret>>
     ELSE AddAndReturn(BuiltinPrim(layout), Info(var, "builtin", outer, opt_name, <<>>), rest)

\* Mutation of HelpNonConcrete: an empty Struct stands in for the unresolved variable.
HelpNonConcreteFallback ==
  /\ Running("add_type_help")
  /\ Content.kind \in {"FlexVar", "RigidVar", "FlexAbleVar", "RigidAbleVar"}
  /\ seen' = seen \cup {<<Top.var, Top.layout>>}
  /\ AddAndReturn(Struct(StructName(Top.var), <<>>),
                  Info(Top.var, "fallback", Top.outer, Top.opt_name, <<>>), Rest)
  /\ UNCHANGED <<entered, deps, pending, known, outcome, lowered>>

\* add_type_help: an unresolved type variable.
HelpNonConcrete ==
  /\ Running("add_type_help")
  /\ Content.kind \in {"FlexVar", "RigidVar", "FlexAbleVar", "RigidAbleVar"}
  /\ seen' = seen \cup {<<Top.var, Top.layout>>}
  /\ Halt("todo_non_concrete")

\* add_type_help: Func, FunctionOrTagUnion, Erroneous, EmptyRecord, EmptyTagUnion,
\* RangedNumber and Error all end in todo!().
HelpUnsupported ==
  /\ Running("add_type_help")
  /\ Content.kind \in {"Func", "FunctionOrTagUnion", "Erroneous", "EmptyRecord",
                       "EmptyTagUnion", "RangedNumber", "Error"}
  /\ seen' = seen \cup {<<Top.var, Top.layout>>}
  /\ Halt("todo_content")

\* add_type_help: a record; its kept fields, in whatever order the iterator yields
\* them, go to add_struct under the alias name or a StructNames name.
HelpRecord ==
  /\ Running("add_type_help")
  /\ Content.kind = "Record"
  /\ seen' = seen \cup {<<Top.var, Top.layout>>}
  /\ \E order \in Orders(Content.fields) :
       AddStruct(RecordName(Top.opt_name, Top.var), KeptFields(order), Rest,
                 Info(Top.var, "record", Top.outer, Top.opt_name, KeptFields(order)))
  /\ UNCHANGED <<entered, deps, pending, known>>

\* add_tag_union, single tag, no payload: an empty Struct.
HelpSingleTag0 ==
  /\ Running("add_type_help")
  /\ Content.kind \in {"TagUnion", "RecursiveTagUnion"}
  /\ Len(Content.tags) = 1
  /\ Len(Content.tags[1].vars) = 0
  /\ seen' = seen \cup {<<Top.var, Top.layout>>}
  /\ AddAndReturn(Struct(SingleTagName(Top.opt_name, Content.tags[1].name), <<>>),
                  Info(Top.var, "single_tag", Top.outer, Top.opt_name, <<>>), Rest)
  /\ UNCHANGED <<entered, deps, pending, known, outcome, lowered>>

\* add_tag_union, single tag, one payload: add_type on it, then a TransparentWrapper.
HelpSingleTag1 ==
  /\ Running("add_type_help")
  /\ Content.kind \in {"TagUnion", "RecursiveTagUnion"}
  /\ Len(Content.tags) = 1
  /\ Len(Content.tags[1].vars) = 1
  /\ seen' = seen \cup {<<Top.var, Top.layout>>}
  /\ stack' = Rest \o
       <<[f |-> "wrapper_k",
          name |-> SingleTagName(Top.opt_name, Content.tags[1].name),
          g |-> Info(Top.var, "single_tag", Top.outer, Top.opt_name, <<>>)],
         CallAddType(Content.tags[1].vars[1])>>
  /\ lowered' = lowered \cup {<<Top.var, Content.tags[1].vars[1]>>}
  /\ UNCHANGED <<entered, types, deps, pending, known, ret, outcome, info>>

\* add_tag_union, single tag, several payloads: add_struct on fields f0, f1, ...
HelpSingleTagN ==
  /\ Running("add_type_help")
  /\ Content.kind \in {"TagUnion", "RecursiveTagUnion"}
  /\ Len(Content.tags) = 1
  /\ Len(Content.tags[1].vars) > 1
  /\ seen' = seen \cup {<<Top.var, Top.layout>>}
  /\ AddStruct(SingleTagName(Top.opt_name, Content.tags[1].name),
               PayloadFields(Content.tags[1].vars), Rest,
               Info(Top.var, "single_tag", Top.outer, Top.opt_name,
                    PayloadFields(Content.tags[1].vars)))
  /\ UNCHANGED <<entered, deps, pending, known>>

\* add_tag_union, several tags: reserve the placeholder slot, take the layout and
\* the name, sort the tags the iterator yielded.
HelpMultiTag ==
  /\ Running("add_type_help")
  /\ Content.kind \in {"TagUnion", "RecursiveTagUnion"}
  /\ Len(Content.tags) # 1
  /\ seen' = seen \cup {<<Top.var, Top.layout>>}
  /\ types' = Append(types, Placeholder)
  /\ info' = Append(info, Info(Top.var, "union", Top.outer, Top.opt_name, <<>>))
  /\ IF LayoutOf(Top.var) = "lErr"
     THEN /\ outcome' = "unwrap_layout"
          /\ UNCHANGED stack
     ELSE /\ \E order \in Orders(Content.tags) :
               stack' = Rest \o
                 <<[f |-> "union_k", type_id |-> Len(types),
                    layout |-> LayoutOf(Top.var),
                    name |-> UnionName(Top.opt_name, Top.var),
                    var |-> Top.var, outer |-> Top.outer,
                    todo |-> SortTags(order), done |-> <<>>,
                    wait |-> FALSE, tag |-> ""]>>
          /\ UNCHANGED outcome
  /\ UNCHANGED <<entered, deps, pending, known, ret, lowered>>

\* add_tag_union's map over the sorted tags, one tag: no payload, the one payload
\* inline, or a payload struct "{name}_{tag_name}".
UnionNextTag ==
  /\ Running("union_k")
  /\ ~Top.wait
  /\ Len(Top.todo) > 0
  /\ LET tag == Head(Top.todo)
         waiting == [Top EXCEPT !.todo = Tail(Top.todo), !.wait = TRUE,
                                !.tag = tag.name]
     IN IF AnyLayoutErr(tag.vars) THEN
          /\ outcome' = "unwrap_layout"
          /\ UNCHANGED <<types, info, ret, stack, lowered>>
        ELSE IF StructFieldsNeeded(tag.vars) = 0 THEN
          /\ stack' = Rest \o <<[Top EXCEPT !.todo = Tail(Top.todo),
                                            !.done = Append(Top.done, <<tag.name, None>>)]>>
          /\ UNCHANGED <<types, info, ret, outcome, lowered>>
        ELSE IF StructFieldsNeeded(tag.vars) = 1 /\ ~IsRecursiveTagUnion(Top.layout) THEN
          /\ stack' = Rest \o <<waiting,
                                CallHelp(LayoutOf(tag.vars[1]), tag.vars[1], None, "")>>
          /\ lowered' = lowered \cup {<<Top.var, tag.vars[1]>>}
          /\ UNCHANGED <<types, info, ret, outcome>>
        ELSE
          AddStruct(PayloadStructName(Top.name, tag.name), PayloadFields(tag.vars),
                    Rest \o <<waiting>>,
                    Info(Top.var, "payload", "", None, PayloadFields(tag.vars)))
  /\ UNCHANGED <<entered, deps, pending, known, seen>>

\* add_tag_union's map: the payload of the current tag came back.
UnionTagReturn ==
  /\ Running("union_k")
  /\ Top.wait
  /\ stack' = Rest \o <<[Top EXCEPT !.wait = FALSE,
                                    !.done = Append(Top.done, <<Top.tag, ret>>)]>>
  /\ UNCHANGED <<entered, types, deps, pending, known, ret, outcome, info, seen, lowered>>

\* Mutation of UnionFinish: types.replace is left out, the placeholder stays.
UnionFinishNoReplace ==
  /\ Running("union_k")
  /\ ~Top.wait
  /\ Len(Top.todo) = 0
  /\ LET typ == TagUnionType(Top.layout, Top.name, Top.done)
     IN IF IsPanic(typ)
        THEN Halt(typ.panic)
        ELSE /\ ret' = Some(Top.type_id)
             /\ stack' = Rest
             /\ UNCHANGED <<entered, types, deps, pending, known, outcome, info, lowered>>
  /\ UNCHANGED seen

\* add_tag_union: every tag is done; the layout picks the type, which replaces the
\* placeholder, and the reserved id is returned.
UnionFinish ==
  /\ Running("union_k")
  /\ ~Top.wait
  /\ Len(Top.todo) = 0
  /\ LET typ == TagUnionType(Top.layout, Top.name, Top.done)
     IN IF IsPanic(typ)
        THEN Halt(typ.panic)
        ELSE /\ types' = Replace(types, Top.type_id, typ)
             /\ ret' = Some(Top.type_id)
             /\ stack' = Rest
             /\ UNCHANGED <<entered, deps, pending, known, outcome, info, lowered>>
  /\ UNCHANGED seen

\* add_type_help: Apply; a builtin layout goes to add_builtin_type, any other ends
\* in todo!().
HelpApply ==
  /\ Running("add_type_help")
  /\ Content.kind = "Apply"
  /\ seen' = seen \cup {<<Top.var, Top.layout>>}
  /\ IF Layouts[Top.layout].k = "Builtin"
     THEN /\ AddBuiltinType(Top.layout, Top.var, Top.opt_name, Top.outer, Rest)
          /\ UNCHANGED <<entered, deps, pending, known, outcome, lowered>>
     ELSE Halt("todo_apply")

\* add_type_help: a builtin alias; its layout must be a builtin.
HelpBuiltinAlias ==
  /\ Running("add_type_help")
  /\ Content.kind = "Alias"
  /\ Content.builtin
  /\ seen' = seen \cup {<<Top.var, Top.layout>>}
  /\ IF Layouts[Top.layout].k = "Builtin"
     THEN /\ AddBuiltinType(Top.layout, Top.var, Top.opt_name, Top.outer, Rest)
          /\ UNCHANGED <<entered, deps, pending, known, outcome, lowered>>
     ELSE Halt("unreachable_alias")

\* add_type_help: a non-builtin alias; recurse into the real var with this alias's name.
HelpAlias ==
  /\ Running("add_type_help")
  /\ Content.kind = "Alias"
  /\ ~Content.builtin
  /\ seen' = seen \cup {<<Top.var, Top.layout>>}
  /\ stack' = Rest \o <<CallHelp(Top.layout, Content.real, Some(Content.sym),
                                 IF Top.outer = "" THEN Content.sym ELSE Top.outer)>>
  /\ UNCHANGED <<entered, types, deps, pending, known, ret, outcome, info, lowered>>

\* add_type_help: a recursion variable; a RecursivePointer with content PENDING,
\* registered as pending for the structure variable.
HelpRecursionVar ==
  /\ Running("add_type_help")
  /\ Content.kind = "RecursionVar"
  /\ seen' = seen \cup {<<Top.var, Top.layout>>}
  /\ AddAndReturn(RecursivePointer(EnumName(Content.structure), PENDING),
                  Info(Top.var, "recursion", Top.outer, Top.opt_name, <<>>), Rest)
  /\ pending' = Append(pending, <<Len(types), Content.structure>>)
  /\ UNCHANGED <<entered, deps, known, outcome, lowered>>

\* add_builtin_type, List and Set: the element's type came back.
ElemReturn ==
  /\ Running("elem_k")
  /\ AddAndReturn([k |-> IF Top.b = "List" THEN "RocList" ELSE "RocSet", elem |-> ret[1]],
                  Info(Top.var, "builtin", "", None, <<>>), Rest)
  /\ deps' = deps \cup {<<Len(types), ret[1]>>}
  /\ UNCHANGED <<entered, pending, known, outcome, seen, lowered>>

\* add_builtin_type, Dict: the key's type came back; lower the value layout.
DictKeyReturn ==
  /\ Running("dict_key_k")
  /\ stack' = Rest \o <<[f |-> "dict_val_k", key_id |-> ret[1], var |-> Top.var],
                        CallHelp(Layouts[Top.layout].val, Top.var, Top.opt_name,
                                 Top.outer)>>
  /\ UNCHANGED <<entered, types, deps, pending, known, ret, outcome, info, seen, lowered>>

\* add_builtin_type, Dict: the value's type came back; add the RocDict and its edges.
DictValReturn ==
  /\ Running("dict_val_k")
  /\ AddAndReturn([k |-> "RocDict", key |-> Top.key_id, val |-> ret[1]],
                  Info(Top.var, "builtin", "", None, <<>>), Rest)
  /\ deps' = deps \cup {<<Len(types), Top.key_id>>, <<Len(types), ret[1]>>}
  /\ UNCHANGED <<entered, pending, known, outcome, seen, lowered>>

Next ==
  \/ NextEntry
  \/ Finish
  \/ AddType
  \/ HelpNonConcrete
  \/ HelpUnsupported
  \/ HelpRecord
  \/ HelpSingleTag0
  \/ HelpSingleTag1
  \/ HelpSingleTagN
  \/ HelpMultiTag
  \/ UnionNextTag
  \/ UnionTagReturn
  \/ UnionFinish
  \/ HelpApply
  \/ HelpBuiltinAlias
  \/ HelpAlias
  \/ HelpRecursionVar
  \/ WrapperReturn
  \/ StructFieldReturn
  \/ ElemReturn
  \/ DictKeyReturn
  \/ DictValReturn

Spec == Init /\ [][Next]_vars

-----------------------------------------------------------------------------
(* Reading the registry.                                                   *)

Ids == 0..(Len(types) - 1)
Get(id) == types[id + 1]
InfoOf(id) == info[id + 1]

\* The TypeIds a RocType mentions.
Mentions(t) ==
  CASE t.k = "Struct" -> {t.fields[i][2] : i \in 1..Len(t.fields)}
    [] t.k \in {"TransparentWrapper", "RecursivePointer"} -> {t.content}
    [] t.k \in {"RocList", "RocSet"} -> {t.elem}
    [] t.k = "RocDict" -> {t.key, t.val}
    [] t.k = "TagUnion" /\ t.u \in {"NonRecursive", "Recursive"} ->
         {t.tags[i][2][1] : i \in {j \in 1..Len(t.tags) : t.tags[j][2] # None}}
    [] t.k = "TagUnion" /\ t.u = "NullableUnwrapped" -> {t.non_null_payload}
    [] OTHER -> {}

\* The variable a chain of non-builtin aliases starting at v ends in.
RECURSIVE Unalias(_)
Unalias(v) ==
  IF Subs[v].kind = "Alias" /\ ~Subs[v].builtin THEN Unalias(Subs[v].real) ELSE v

\* The variable of the field `label` among the fields handed to add_struct.
VarOfLabel(input, label) ==
  (CHOOSE p \in input : p[1] = label)[2]

-----------------------------------------------------------------------------
(* The claims.                                                             *)

\* C1: whenever vars_to_types returns a registry, no registered RocType mentions
\* PENDING and pending_recursive_types is empty.
C1_NoPendingLeak ==
  outcome = "returned" =>
    /\ \A id \in Ids : PENDING \notin Mentions(Get(id))
    /\ pending = <<>>

\* C1: a registry is returned after two entries, one of them a multi-tag union.
C1_Witness ==
  /\ outcome = "returned"
  /\ Len(entered) = 2
  /\ \E id \in Ids : Get(id).k = "TagUnion"

\* C2: lowering a multi-constructor recursive tag union with variable v registers
\* v -> placeholder id in known_recursive_types, so that the resolution pass finds
\* an entry for every pending pointer, the call completes, and every
\* RecursivePointer emitted for a recursion variable whose structure is v ends with
\* content equal to the TypeId of that union, its name unchanged.
C2_RecursionResolved ==
  /\ \A id \in Ids :
       (/\ InfoOf(id).site = "union"
        /\ Subs[InfoOf(id).var].kind = "RecursiveTagUnion"
        /\ Get(id) # Placeholder)
       => (InfoOf(id).var \in DOMAIN known /\ known[InfoOf(id).var] = id)
  /\ outcome # "unreachable_known"
  /\ outcome = "returned" =>
       \A p \in Ids :
         InfoOf(p).site = "recursion" =>
           /\ Get(p).k = "RecursivePointer"
           /\ Get(p).name = EnumName(Subs[InfoOf(p).var].structure)
           /\ Get(p).content \in Ids
           /\ InfoOf(Get(p).content).site = "union"
           /\ InfoOf(Get(p).content).var = Subs[InfoOf(p).var].structure

\* C3: in the registry vars_to_types returns, every TypeId c mentioned by a
\* composite type with id i has the edge <<i, c>> in depends; a three-field record
\* of primitives has exactly three edges from its Struct.
C3_DependsClosed ==
  outcome = "returned" =>
    /\ \A id \in Ids : \A c \in Mentions(Get(id)) : <<id, c>> \in deps
    /\ \A id \in Ids :
         (InfoOf(id).var = "vRec3" /\ InfoOf(id).site = "record")
         => Cardinality({e \in deps : e[1] = id}) = 3

\* The tag names of an emitted TagUnion, in order.
TagNamesOf(t) ==
  IF t.u = "Enumeration" THEN t.tags ELSE [i \in 1..Len(t.tags) |-> t.tags[i][1]]

\* C4: the tag names of every emitted Enumeration, NonRecursive and Recursive
\* TagUnion are in strictly increasing alphabetical order.
C4_TagOrder ==
  \A id \in Ids :
    (Get(id).k = "TagUnion" /\ Get(id).u \in {"Enumeration", "NonRecursive", "Recursive"})
    => \A i \in 1..(Len(TagNamesOf(Get(id))) - 1) :
         StrCmp(TagNamesOf(Get(id))[i], TagNamesOf(Get(id))[i + 1]) = "Less"

\* C4: an Enumeration of three tags and a NonRecursive union of two have been
\* emitted, both from unions whose tags are declared out of alphabetical order.
C4_Witness ==
  /\ \E id \in Ids : /\ Get(id).k = "TagUnion" /\ Get(id).u = "Enumeration"
                     /\ InfoOf(id).var = "vEnum" /\ Len(Get(id).tags) = 3
  /\ \E id \in Ids : /\ Get(id).k = "TagUnion" /\ Get(id).u = "NonRecursive"
                     /\ InfoOf(id).var = "vResult" /\ Len(Get(id).tags) = 2

\* C5: the fields of every emitted Struct with two or more fields are the fields
\* handed to add_struct, sorted by cmp_fields (no consecutive pair is Greater), a
\* permutation of them, each label with the type lowered from its own variable.
C5_FieldOrder ==
  \A id \in Ids :
    (Get(id).k = "Struct" /\ Len(Get(id).fields) >= 2) =>
      LET fs == Get(id).fields
          input == InfoOf(id).input
          layoutOf(i) == LayoutOf(VarOfLabel(input, fs[i][1]))
      IN /\ {fs[i][1] : i \in 1..Len(fs)} = {p[1] : p \in input}
         /\ Len(fs) = Cardinality(input)
         /\ \A i \in 1..(Len(fs) - 1) :
              CmpFields(fs[i][1], layoutOf(i), fs[i + 1][1], layoutOf(i + 1)) # "Greater"
         /\ \A i \in 1..Len(fs) :
              /\ fs[i][2] \in Ids
              /\ InfoOf(fs[i][2]).var = Unalias(VarOfLabel(input, fs[i][1]))

\* C5: the record {a: U8, b: U64, c: Bool} was emitted as b, a, c, and the payloads
\* of [Foo U8 U64] as f1, f0.
C5_Witness ==
  /\ \E id \in Ids : /\ Get(id).k = "Struct" /\ InfoOf(id).var = "vRec3"
                     /\ [i \in 1..3 |-> Get(id).fields[i][1]] = <<"b", "a", "c">>
  /\ \E id \in Ids : /\ Get(id).k = "Struct" /\ InfoOf(id).var = "vTag2"
                     /\ [i \in 1..2 |-> Get(id).fields[i][1]] = <<"f1", "f0">>

\* The single-tag unions of the universe.
IsSingleTagUnion(v) ==
  Subs[v].kind \in {"TagUnion", "RecursiveTagUnion"} /\ Len(Subs[v].tags) = 1

\* C6: for a tag union with exactly one constructor nothing is reserved and no
\* TagUnion is emitted: 0 payloads give an empty Struct, 1 a TransparentWrapper over
\* the payload's type, 2 or more a Struct with fields f0, f1, ...; the name is the
\* alias name if one was passed, else the tag name.
C6_SingleTagCollapse ==
  \A id \in Ids :
    IsSingleTagUnion(InfoOf(id).var) =>
      LET t == Get(id)
          tag == Subs[InfoOf(id).var].tags[1]
          n == Len(tag.vars)
          opt == InfoOf(id).opt_name
      IN /\ InfoOf(id).site = "single_tag"
         /\ t # Placeholder
         /\ t.k # "TagUnion"
         /\ t.name = (IF opt # None THEN opt[1] ELSE tag.name)
         /\ n = 0 => (t.k = "Struct" /\ t.fields = <<>>)
         /\ n = 1 => /\ t.k = "TransparentWrapper"
                     /\ t.content \in Ids
                     /\ InfoOf(t.content).var = Unalias(tag.vars[1])
         /\ n >= 2 => /\ t.k = "Struct"
                      /\ Len(t.fields) = n
                      /\ {t.fields[i][1] : i \in 1..n} = {"f" \o ToString(i - 1) : i \in 1..n}

\* C6: [Foo Str] reached through the alias Id was emitted as the wrapper Id, and
\* [Foo U8 U64] as the Struct Foo.
C6_Witness ==
  /\ \E id \in Ids : /\ InfoOf(id).var = "vTag1" /\ Get(id).k = "TransparentWrapper"
                     /\ Get(id).name = "Id"
  /\ \E id \in Ids : /\ InfoOf(id).var = "vTag2" /\ Get(id).k = "Struct"
                     /\ Get(id).name = "Foo" /\ Len(Get(id).fields) = 2

\* C7: every emitted NullableUnwrapped has null_tag the name of the union's tag
\* without payload, non_null_tag and non_null_payload the name and the payload type
\* of the other tag, and null_represents_first_tag the layout's nullable_id.
C7_NullableUnwrappedShape ==
  \A id \in Ids :
    (Get(id).k = "TagUnion" /\ Get(id).u = "NullableUnwrapped") =>
      LET t == Get(id)
          v == InfoOf(id).var
          tags == Subs[v].tags
          empty == CHOOSE i \in 1..Len(tags) : Len(tags[i].vars) = 0
          other == CHOOSE i \in 1..Len(tags) : Len(tags[i].vars) > 0
      IN /\ Len(tags) = 2
         /\ t.null_tag = tags[empty].name
         /\ t.non_null_tag = tags[other].name
         /\ t.non_null_payload \in Ids
         /\ InfoOf(t.non_null_payload).site = "payload"
         /\ InfoOf(t.non_null_payload).var = v
         /\ Get(t.non_null_payload).name = PayloadStructName(t.name, tags[other].name)
         /\ t.null_represents_first_tag = Layouts[LayoutOf(v)].nullable_id

\* C7: one NullableUnwrapped was emitted with nullable_id true (the empty tag Nil
\* after Cons) and one with nullable_id false (the empty tag Empty before Node).
C7_Witness ==
  /\ \E id \in Ids : /\ Get(id).k = "TagUnion" /\ Get(id).u = "NullableUnwrapped"
                     /\ Get(id).null_represents_first_tag /\ Get(id).null_tag = "Nil"
  /\ \E id \in Ids : /\ Get(id).k = "TagUnion" /\ Get(id).u = "NullableUnwrapped"
                     /\ ~Get(id).null_represents_first_tag /\ Get(id).null_tag = "Empty"

\* The names of the non-builtin aliases of the universe.
AliasNames == {Subs[v].sym : v \in {w \in Vars : Subs[w].kind = "Alias" /\ ~Subs[w].builtin}}

\* C8: a record or tag union reached through a non-builtin alias N, also through a
\* chain of aliases starting at N, is emitted under the name N exactly, and the
\* types of its fields and payloads do not get an alias name.
C8_AliasWins ==
  \A id \in Ids :
    (/\ InfoOf(id).site \in {"record", "single_tag", "union"}
     /\ Get(id) # Placeholder
     /\ Get(id).k \in {"Struct", "TransparentWrapper", "TagUnion"})
    => IF InfoOf(id).outer # ""
       THEN Get(id).name = InfoOf(id).outer
       ELSE Get(id).name \notin AliasNames

\* The fields of the record variable v that are not Optional.
NonOptional(v) == SelectSeq(Subs[v].fields, LAMBDA f : f.kind # "Optional")

\* C9: an Optional field contributes nothing to the lowering of its record: its
\* label is not among the emitted fields, its variable is not lowered on behalf of
\* the record, and the 0 / 1 / >= 2 shape counts the other fields only.
C9_OptionalErased ==
  /\ \A p \in seen :
       Subs[p[1]].kind = "Record" =>
         \A i \in 1..Len(Subs[p[1]].fields) :
           LET f == Subs[p[1]].fields[i]
           IN (/\ f.kind = "Optional"
               /\ \A j \in 1..Len(NonOptional(p[1])) : NonOptional(p[1])[j].var # f.var)
              => <<p[1], f.var>> \notin lowered
  /\ \A id \in Ids :
       InfoOf(id).site = "record" =>
         LET t == Get(id)
             n == Len(NonOptional(InfoOf(id).var))
         IN /\ n = 0 => (t.k = "Struct" /\ t.fields = <<>>)
            /\ n = 1 => t.k = "TransparentWrapper"
            /\ n >= 2 =>
                 /\ t.k = "Struct"
                 /\ {t.fields[i][1] : i \in 1..Len(t.fields)}
                      = {NonOptional(InfoOf(id).var)[j].label : j \in 1..n}

\* C9: the records {x: U32, y ? I64, z: Str}, whose Struct has two fields, and
\* {b ? Str}, whose Struct has none, were emitted.
C9_Witness ==
  /\ \E id \in Ids : /\ InfoOf(id).var = "vRecOpt3" /\ InfoOf(id).site = "record"
                     /\ Len(Get(id).fields) = 2
  /\ \E id \in Ids : /\ InfoOf(id).var = "vRecAllOpt" /\ InfoOf(id).site = "record"
                     /\ Get(id).fields = <<>>

Unresolved == {"FlexVar", "RigidVar", "FlexAbleVar", "RigidAbleVar"}
UnsupportedContent ==
  {"Func", "FunctionOrTagUnion", "Erroneous", "EmptyRecord", "EmptyTagUnion",
   "RangedNumber", "Error"}

\* The call add_type_help(layout, var) is the one the stack ends in.
IsLastCall(p) ==
  /\ Len(stack) > 0
  /\ Top.f = "add_type_help"
  /\ Top.var = p[1]
  /\ Top.layout = p[2]

OneRequiredOneOptional(v) ==
  /\ Subs[v].kind = "Record"
  /\ Len(Subs[v].fields) = 2
  /\ Len(NonOptional(v)) = 1

\* C11 as stated: a record with one non-optional field a and one optional field b
\* is emitted as a Struct whose only field is a.
C11_OptionalRecordIsStruct ==
  \A id \in Ids :
    (InfoOf(id).site = "record" /\ OneRequiredOneOptional(InfoOf(id).var)) =>
      /\ Get(id).k = "Struct"
      /\ Len(Get(id).fields) = 1
      /\ Get(id).fields[1][1] = NonOptional(InfoOf(id).var)[1].label

\* C11 as amended: a record with one non-optional field a and one optional field b
\* is emitted as a TransparentWrapper, under the record's name, whose content is the
\* type lowered from a's variable just before it; b's variable is not lowered for
\* the record.
C11_OptionalRecordIsWrapper ==
  /\ \A id \in Ids :
       (InfoOf(id).site = "record" /\ OneRequiredOneOptional(InfoOf(id).var)) =>
         LET t == Get(id)
             v == InfoOf(id).var
         IN /\ t.k = "TransparentWrapper"
            /\ t.name = RecordName(InfoOf(id).opt_name, v)
            /\ t.content = id - 1
            /\ InfoOf(t.content).var = NonOptional(v)[1].var
  /\ \A p \in seen :
       OneRequiredOneOptional(p[1]) =>
         \A i \in 1..2 :
           Subs[p[1]].fields[i].kind = "Optional" =>
             <<p[1], Subs[p[1]].fields[i].var>> \notin lowered

\* C11: the record {a: U8, b ? Str} was emitted as a wrapper of U8 and the call
\* returned.
C11_Witness ==
  /\ outcome = "returned"
  /\ \E id \in Ids :
       /\ InfoOf(id).var = "vRecOpt" /\ InfoOf(id).site = "record"
       /\ Get(id).k = "TransparentWrapper"
       /\ Get(Get(id).content) = Prim("U8")

\* The payload variables whose layout is not dropped because empty.
EffectiveVars(payload_vars) ==
  SelectSeq(payload_vars, LAMBDA v : ~IsDroppedBecauseEmpty(LayoutOf(v)))

\* The tag called tag_name of the union variable v.
TagOfName(v, tag_name) ==
  Subs[v].tags[CHOOSE i \in 1..Len(Subs[v].tags) : Subs[v].tags[i].name = tag_name]

IsMultiTagUnion(v) ==
  Subs[v].kind \in {"TagUnion", "RecursiveTagUnion"} /\ Len(Subs[v].tags) # 1

\* C12, the tag with one effective payload variable in a non-recursive union: the
\* variable lowered for it is the effective one, never a dropped one.
C12_InlineIsEffective ==
  \A p \in seen :
    (IsMultiTagUnion(p[1]) /\ ~IsRecursiveTagUnion(p[2])) =>
      \A i \in 1..Len(Subs[p[1]].tags) :
        LET payload_vars == Subs[p[1]].tags[i].vars
        IN Len(EffectiveVars(payload_vars)) = 1 =>
             \A j \in 1..Len(payload_vars) :
               (/\ IsDroppedBecauseEmpty(LayoutOf(payload_vars[j]))
                /\ \A k \in (1..Len(Subs[p[1]].tags)) \ {i} :
                     \A m \in 1..Len(Subs[p[1]].tags[k].vars) :
                       Subs[p[1]].tags[k].vars[m] # payload_vars[j])
               => <<p[1], payload_vars[j]>> \notin lowered

\* C12, the emitted (tag, payload) list: no payload for 0 effective variables, the
\* type of the one effective variable for 1 in a non-recursive union, and in every
\* other case a Struct "{UnionName}_{TagName}" with fields f0, f1, ... .
C12_PayloadShape ==
  \A id \in Ids :
    (/\ InfoOf(id).site = "union"
     /\ Get(id).k = "TagUnion"
     /\ Get(id).u \in {"NonRecursive", "Recursive"}) =>
      \A i \in 1..Len(Get(id).tags) :
        LET tag_name == Get(id).tags[i][1]
            payload == Get(id).tags[i][2]
            payload_vars == TagOfName(InfoOf(id).var, tag_name).vars
            n == Len(EffectiveVars(payload_vars))
        IN IF n = 0 THEN payload = None
           ELSE IF n = 1 /\ Get(id).u = "NonRecursive" THEN
             /\ payload # None
             /\ InfoOf(payload[1]).site # "payload"
             /\ InfoOf(payload[1]).var = Unalias(EffectiveVars(payload_vars)[1])
           ELSE
             /\ payload # None
             /\ Get(payload[1]).k = "Struct"
             /\ Get(payload[1]).name = PayloadStructName(Get(id).name, tag_name)
             /\ {Get(payload[1]).fields[j][1] : j \in 1..Len(Get(payload[1]).fields)}
                  = {"f" \o ToString(j - 1) : j \in 1..Len(payload_vars)}

\* C12 as stated: for every tag of a multi-constructor union the payload is decided
\* by the number of payload variables whose layout is not dropped because empty,
\* and the one effective variable is the one lowered at whatever position it sits.
C12_PayloadByEffectiveCount ==
  /\ C12_InlineIsEffective
  /\ C12_PayloadShape

\* names holds every tag name of the union variable v, once each, in alphabetical
\* order.
FullAlphabetical(v, names) ==
  /\ Len(names) = Len(Subs[v].tags)
  /\ {names[i] : i \in 1..Len(names)}
       = {Subs[v].tags[i].name : i \in 1..Len(Subs[v].tags)}
  /\ \A i \in 1..(Len(names) - 1) : StrCmp(names[i], names[i + 1]) = "Less"

\* C13: the type stored at a multi-constructor union's id is fixed by the union's
\* layout: Union::NonRecursive gives TagUnion::NonRecursive and Union::Recursive
\* gives TagUnion::Recursive, both under the union's name with the full
\* alphabetical (tag, payload) list, Builtin::Int gives TagUnion::Enumeration with
\* the tag names only, and Builtin::Bool gives Bool and no TagUnion.
C13_TypeFixedByLayout ==
  \A id \in Ids :
    (InfoOf(id).site = "union" /\ Get(id) # Placeholder) =>
      LET t == Get(id)
          v == InfoOf(id).var
          l == Layouts[LayoutOf(v)]
          name == UnionName(InfoOf(id).opt_name, v)
      IN /\ (l.k = "Union" /\ l.u \in {"NonRecursive", "Recursive"}) =>
              /\ t.k = "TagUnion"
              /\ t.u = l.u
              /\ DOMAIN t = {"k", "u", "name", "tags"}
              /\ t.name = name
              /\ FullAlphabetical(v, [i \in 1..Len(t.tags) |-> t.tags[i][1]])
              /\ \A i \in 1..Len(t.tags) :
                   \/ t.tags[i][2] = None
                   \/ /\ t.tags[i][2] = Some(t.tags[i][2][1])
                      /\ t.tags[i][2][1] \in Ids \ {id}
         /\ (l.k = "Builtin" /\ l.b = "Int") =>
              /\ t.k = "TagUnion"
              /\ t.u = "Enumeration"
              /\ DOMAIN t = {"k", "u", "name", "tags"}
              /\ t.name = name
              /\ FullAlphabetical(v, t.tags)
         /\ (l.k = "Builtin" /\ l.b = "Bool") => t = Prim("Bool")

\* C13: one registry holds a finished union of each of the four layouts:
\* [Term Expr, Color [Red, Green, Blue], Flag [A, B]] with its three payloads.
C13_Witness ==
  /\ \E id \in Ids : /\ InfoOf(id).site = "union" /\ InfoOf(id).var = "vShapes"
                     /\ Get(id).k = "TagUnion" /\ Get(id).u = "NonRecursive"
                     /\ Len(Get(id).tags) = 3
  /\ \E id \in Ids : /\ InfoOf(id).site = "union" /\ InfoOf(id).var = "vExpr"
                     /\ Get(id).k = "TagUnion" /\ Get(id).u = "Recursive"
  /\ \E id \in Ids : /\ InfoOf(id).site = "union" /\ InfoOf(id).var = "vEnum"
                     /\ Get(id).k = "TagUnion" /\ Get(id).u = "Enumeration"
                     /\ Get(id).tags = <<"Blue", "Green", "Red">>
  /\ \E id \in Ids : /\ InfoOf(id).site = "union" /\ InfoOf(id).var = "vBool2"
                     /\ Get(id) = Prim("Bool")

\* C14, in every state: while add_tag_union is lowering the payloads of a
\* multi-constructor union its reserved slot holds the placeholder and every payload
\* lowered so far has a larger id; a finished union mentions larger ids only; the
\* placeholder is held only by the slots of unions still being lowered; and a
\* returned registry holds no placeholder.
C14_Reserved ==
  /\ \A k \in 1..Len(stack) :
       stack[k].f = "union_k" =>
         /\ stack[k].type_id \in Ids
         /\ Get(stack[k].type_id) = Placeholder
         /\ InfoOf(stack[k].type_id).site = "union"
         /\ InfoOf(stack[k].type_id).var = stack[k].var
         /\ \A i \in 1..Len(stack[k].done) :
              stack[k].done[i][2] # None => stack[k].done[i][2][1] > stack[k].type_id
  /\ \A id \in Ids :
       /\ (InfoOf(id).site = "union" /\ Get(id) # Placeholder) =>
            \A m \in Mentions(Get(id)) : m > id
       /\ Get(id) = Placeholder =>
            /\ InfoOf(id).site = "union"
            /\ \E k \in 1..Len(stack) :
                 stack[k].f = "union_k" /\ stack[k].type_id = id
  /\ outcome = "returned" => \A id \in Ids : Get(id) # Placeholder

\* C14, in every step: a union's slot is new with the placeholder in it and nothing
\* lowered in that step; it changes only from the placeholder to the final type, in
\* the step that ends add_tag_union with every tag done and returns the slot's id.
C14_Step ==
  /\ (Len(info') > Len(info) /\ info'[Len(info')].site = "union") =>
       /\ Len(types') = Len(types) + 1
       /\ types'[Len(types')] = Placeholder
       /\ lowered' = lowered
  /\ \A id \in Ids :
       (InfoOf(id).site = "union" /\ types'[id + 1] # types[id + 1]) =>
         /\ types[id + 1] = Placeholder
         /\ types'[id + 1] # Placeholder
         /\ Len(stack) > 0
         /\ Top.f = "union_k"
         /\ Top.type_id = id
         /\ ~Top.wait
         /\ Top.todo = <<>>
         /\ Len(Top.done) = Len(Subs[Top.var].tags)
         /\ ret' = Some(id)
         /\ stack' = Rest

\* C14: add_tag_union reserves the slot of a multi-constructor union before it
\* lowers any payload, returns the reserved id, which is smaller than the id of
\* every payload type, overwrites the slot once, after all payloads are lowered,
\* and no returned registry holds the placeholder Struct "[THIS SHOULD BE REMOVED]".
C14_PlaceholderOnce == [](C14_Reserved) /\ [][C14_Step]_vars

\* C14: vars_to_types returned a registry with the union [Ok U32, Err Str], whose
\* slot was overwritten and whose two payloads have larger ids.
C14_Witness ==
  /\ outcome = "returned"
  /\ \E id \in Ids :
       /\ InfoOf(id).site = "union"
       /\ Get(id).k = "TagUnion"
       /\ Get(id).u = "NonRecursive"
       /\ Len(Get(id).tags) = 2
       /\ \A i \in 1..2 : Get(id).tags[i][2] # None /\ Get(id).tags[i][2][1] > id

====
